---- MODULE Spec2Model ----
(***************************************************************************)
(* Ashier: the line buffer (ashierlib/linebuf.py), the directive parser    *)
(* (ashierlib/directive.py, ashierlib/utils.py) and the match driver       *)
(* (ashierlib/reactive.py), as a state machine.                            *)
(*                                                                         *)
(* A string is a sequence of one-character strings, a line buffer is the   *)
(* pair (baseline, lines) where lines is the Python list Buffer._lines.    *)
(***************************************************************************)
EXTENDS Integers, Sequences, FiniteSets, TLC

VARIABLES
  baseline,   \* Buffer.baseline
  lines,      \* Buffer._lines
  fed,        \* number of raw characters given to AppendRawData so far
  last,       \* the last Buffer operation: [op, arg, err]
  orig,       \* the raw string given to the buffer (rawstring of the
              \* fragmentation test)
  source,     \* fragmentation test: the part of rawstring not yet fed
  output,     \* fragmentation test: the lines drained so far
  trail,      \* what a sequence of React calls has done so far: the
              \* reactives that fired and the last match
  reactives,  \* the Reactive objects built from the configuration
  nesting,    \* the nesting list shared by all React calls
  call,       \* the React call under way or just returned
  pass,       \* the driver's pass over the reactives
  input,      \* the argument of the function applied to a configuration text
  result,     \* the values that function returned, latest last
  error_messages, \* utils._error_messages
  shared      \* the nesting stack the Reactive constructors share

bufVars == <<baseline, lines, fed, last>>
fragVars == <<orig, source, output, trail>>
reactVars == <<reactives, nesting, call, pass>>
confVars == <<input, result, error_messages, shared>>
vars ==
  <<baseline, lines, fed, last, orig, source, output, trail, reactives, nesting,
    call, pass, input, result, error_messages, shared>>

LF == "\n"
CR == "\r"

\* ------------------------------------------------------------------ bounds
MaxRaw == 4       \* raw characters fed to one Buffer
MaxChunk == 2     \* length of one AppendRawData argument
MaxFeed == 4      \* raw characters read from the PTY while reactives run
MaxRegex == 4     \* length of a regular expression given to a marker
MaxGroups == 4    \* groups of one configuration
MaxPieces == 3    \* pieces of one line of a configuration file
MaxSample == 3    \* length of a template's sample

RawAlphabet == {"a", CR, LF}

RECURSIVE StringsUpTo(_, _)
StringsUpTo(alphabet, n) ==
  IF n = 0 THEN {<<>>}
  ELSE LET shorter == StringsUpTo(alphabet, n - 1)
       IN  shorter \cup {Append(s, c) : s \in shorter, c \in alphabet}

Chunks == StringsUpTo(RawAlphabet, MaxChunk) \ {<<>>}

PtyAlphabet == {"a", "b", LF}
PtyChunks == StringsUpTo(PtyAlphabet, MaxChunk) \ {<<>>}

\* ------------------------------------------------------ string primitives
\* str.split('\n'): the pieces between the LFs, always at least one piece.
RECURSIVE Split(_, _)
Split(s, sep) ==
  IF \A i \in 1..Len(s) : s[i] # sep THEN <<s>>
  ELSE LET k == CHOOSE i \in 1..Len(s) :
                  s[i] = sep /\ \A j \in 1..(i - 1) : s[j] # sep
       IN  <<SubSeq(s, 1, k - 1)>> \o Split(SubSeq(s, k + 1, Len(s)), sep)

\* str.rstrip('\r'): drop every trailing CR.
RECURSIVE RStrip(_, _)
RStrip(s, ch) ==
  IF Len(s) > 0 /\ s[Len(s)] = ch THEN RStrip(SubSeq(s, 1, Len(s) - 1), ch)
  ELSE s

\* ------------------------------------------------------------ linebuf.py
\* Buffer.GetBound
GetBoundOfNoBaseline(b, ls) == Len(ls)

GetBoundOf(b, ls) == b + Len(ls) - 1
GetBound == GetBoundOf(baseline, lines)

\* Buffer.AppendRawData: the new value of self._lines.
AppendedLinesStripAll(ls, content) ==
  LET pieces == Split(ls[Len(ls)] \o content, LF)
  IN  SubSeq(ls, 1, Len(ls) - 1) \o [i \in 1..Len(pieces) |-> RStrip(pieces[i], CR)]

AppendedLinesStripNone(ls, content) ==
  SubSeq(ls, 1, Len(ls) - 1) \o Split(ls[Len(ls)] \o content, LF)

AppendedLines(ls, content) ==
  LET pieces == Split(ls[Len(ls)] \o content, LF)
      stripped == [i \in 1..Len(pieces) |->
                     IF i < Len(pieces) THEN RStrip(pieces[i], CR)
                     ELSE pieces[i]]
  IN  SubSeq(ls, 1, Len(ls) - 1) \o stripped

\* Buffer.AppendRawData assigns self._lines only: self.baseline after the call.
BaselineAfterAppendFlush(b, ls, content) == GetBoundOf(b, AppendedLines(ls, content)) - 1

BaselineAfterAppend(b, ls, content) == b

\* Buffer.UpdateBaseline: the two assertions.
BaselineInRangeNoUpper(b, ls, new_baseline) == new_baseline >= b

BaselineBelowBound(b, ls, new_baseline) ==
  new_baseline >= b /\ new_baseline < GetBoundOf(b, ls)

BaselineInRange(b, ls, new_baseline) ==
  /\ new_baseline >= b
  /\ new_baseline <= GetBoundOf(b, ls)

\* Buffer.UpdateBaseline: del self._lines[:new_baseline-self.baseline]
DropLinesOneMore(ls, k) == SubSeq(ls, k + 2, Len(ls))

DropLinesOneFewer(ls, k) == IF k = 0 THEN ls ELSE SubSeq(ls, k, Len(ls))

DropLines(ls, k) == SubSeq(ls, k + 1, Len(ls))

\* Buffer.GetLine: the line returned when the assertions pass.
GetLineOffByOne(b, ls, lineno) == ls[lineno - b + 1]

GetLineOf(b, ls, lineno) == ls[lineno - b + 2]

LineInRange(b, ls, lineno) == lineno >= b /\ lineno < GetBoundOf(b, ls)

\* Buffer.__init__
BufferInit ==
  /\ baseline = 1
  /\ lines = <<<<>>, <<>>>>
  /\ fed = 0
  /\ last = [op |-> "init", arg |-> 0, err |-> "none"]

AppendRawData(content) ==
  /\ lines' = AppendedLines(lines, content)
  /\ fed' = fed + Len(content)
  /\ baseline' = BaselineAfterAppend(baseline, lines, content)
  /\ last' = [op |-> "AppendRawData", arg |-> content, err |-> "none"]

UpdateBaseline(new_baseline) ==
  IF BaselineInRange(baseline, lines, new_baseline)
  THEN /\ lines' = DropLines(lines, new_baseline - baseline)
       /\ baseline' = new_baseline
       /\ last' = [op |-> "UpdateBaseline", arg |-> new_baseline, err |-> "none"]
       /\ UNCHANGED fed
  ELSE /\ last' = [op |-> "UpdateBaseline", arg |-> new_baseline,
                   err |-> "AssertionError"]
       /\ UNCHANGED <<baseline, lines, fed>>

GetLine(lineno) ==
  /\ last' = IF LineInRange(baseline, lines, lineno)
             THEN [op |-> "GetLine", arg |-> lineno, err |-> "none",
                   val |-> GetLineOf(baseline, lines, lineno)]
             ELSE [op |-> "GetLine", arg |-> lineno, err |-> "AssertionError",
                   val |-> <<>>]
  /\ UNCHANGED <<baseline, lines, fed>>

\* ------------------------------------------------- the Buffer on its own
NoTrail == [fired |-> {}, r |-> 0, bound |-> 0, ret |-> 0, raised |-> FALSE]

NoFragmentation == orig = <<>> /\ source = <<>> /\ output = <<>> /\ trail = NoTrail

IdleCall ==
  [pc |-> "idle", r |-> 0, bound |-> 0, kind |-> "none", ret |-> 0,
   k |-> 0, fired |-> <<>>, nest0 |-> <<>>, read |-> {}, bindings |-> {}]

NoPass == [on |-> FALSE, bound |-> 0, next |-> 0, rets |-> <<>>, nest0 |-> <<>>]

NoReact == reactives = <<>> /\ nesting = <<>> /\ call = IdleCall /\ pass = NoPass

NoConf == input = <<>> /\ result = <<>> /\ error_messages = <<>> /\ shared = <<>>

InitBuf == BufferInit /\ NoFragmentation /\ NoReact /\ NoConf

BufAppend ==
  /\ \E content \in Chunks :
       /\ fed + Len(content) <= MaxRaw
       /\ AppendRawData(content)
       /\ orig' = orig \o content
  /\ UNCHANGED <<source, output, trail, confVars, reactVars>>

BufUpdateBaseline ==
  /\ \E n \in 0..(GetBound + 1) : UpdateBaseline(n)
  /\ UNCHANGED <<fragVars, confVars, reactVars>>

BufGetLine ==
  /\ \E lineno \in 0..(GetBound + 1) : GetLine(lineno)
  /\ UNCHANGED <<fragVars, confVars, reactVars>>

BufNext == BufAppend \/ BufUpdateBaseline \/ BufGetLine

SpecBuf == InitBuf /\ [][BufNext]_vars

\* ------------------------------- linebuf_test.py: TestBuffer.testFragmentation
\* re.split('\r*\n', s): the length of the match of \r*\n that starts at
\* position i of s, 0 when there is none.
RECURSIVE SkipCR(_, _)
SkipCR(s, i) == IF i <= Len(s) /\ s[i] = CR THEN SkipCR(s, i + 1) ELSE i

SeparatorAt(s, i) ==
  LET j == SkipCR(s, i)
  IN  IF j <= Len(s) /\ s[j] = LF THEN j - i + 1 ELSE 0

RECURSIVE ReSplitFrom(_, _, _)
ReSplitFrom(s, from, i) ==
  IF i > Len(s) THEN <<SubSeq(s, from, Len(s))>>
  ELSE IF SeparatorAt(s, i) > 0
       THEN <<SubSeq(s, from, i - 1)>>
            \o ReSplitFrom(s, i + SeparatorAt(s, i), i + SeparatorAt(s, i))
       ELSE ReSplitFrom(s, from, i + 1)

ReSplit(s) == ReSplitFrom(s, 1, 1)

\* expected_output = re.split('\r*\n', rawstring)[:-1]
ExpectedOutput(s) == SubSeq(ReSplit(s), 1, Len(ReSplit(s)) - 1)

\* source[:take]
Take(s, take) == SubSeq(s, 1, IF take < Len(s) THEN take ELSE Len(s))

Drained == ~(baseline < GetBound - 1)

InitFrag ==
  /\ BufferInit
  /\ NoReact
  /\ NoConf
  /\ orig \in StringsUpTo(RawAlphabet, MaxRaw)
  /\ source = orig
  /\ output = <<>>
  /\ trail = NoTrail

\* buf.AppendRawData(source[:take]); source = source[take:]
FragFeed ==
  /\ source # <<>>
  /\ Drained
  /\ \E take \in 1..MaxRaw :
       /\ AppendRawData(Take(source, take))
       /\ source' = SubSeq(source, Len(Take(source, take)) + 1, Len(source))
  /\ UNCHANGED <<orig, output, trail, reactVars, confVars>>

\* output.append(buf.GetLine(buf.baseline)); buf.UpdateBaseline(buf.baseline+1)
FragDrain ==
  /\ ~Drained
  /\ LineInRange(baseline, lines, baseline)
  /\ output' = Append(output, GetLineOf(baseline, lines, baseline))
  /\ UpdateBaseline(baseline + 1)
  /\ UNCHANGED <<orig, source, trail, reactVars, confVars>>

FragNext == FragFeed \/ FragDrain

SpecFrag == InitFrag /\ [][FragNext]_vars

\* ---------------------------------------------------- regular expressions
\* The regular expressions Ashier infers are sequences of tokens: an escaped
\* literal, \s+, .+, [^\s]+, [^d]+, each possibly wrapped in a capturing
\* group, and the empty group () left by a failed inference.
Lit(c) == [kind |-> "lit", ch |-> c, group |-> FALSE]
Ws == [kind |-> "ws", ch |-> " ", group |-> FALSE]
Group(tok) == [tok EXCEPT !.group = TRUE]
EmptyGroup == [kind |-> "empty", ch |-> "", group |-> TRUE]

\* str.isspace / the class \s
IsSpace(c) == c \in {" ", "\t", LF, CR, "\f"}

Accepts(tok, c) ==
  CASE tok.kind = "lit" -> c = tok.ch
    [] tok.kind = "ws" -> IsSpace(c)
    [] tok.kind = "any" -> c # LF
    [] tok.kind = "notws" -> ~IsSpace(c)
    [] tok.kind = "not" -> c # tok.ch
    [] OTHER -> FALSE

\* The positions a match of tok can end at when it starts after p characters.
TokenEnds(tok, text, p) ==
  CASE tok.kind = "empty" -> {p}
    [] tok.kind = "lit" ->
         IF p < Len(text) /\ Accepts(tok, text[p + 1]) THEN {p + 1} ELSE {}
    [] OTHER ->
         {q \in (p + 1)..Len(text) : \A j \in (p + 1)..q : Accepts(tok, text[j])}

\* re.match(regex, text): the positions a match anchored at the start can end at.
RECURSIVE MatchEnds(_, _, _)
MatchEnds(regex, text, from) ==
  IF regex = <<>> THEN from
  ELSE MatchEnds(Tail(regex), text,
                 UNION {TokenEnds(Head(regex), text, p) : p \in from})

SetMax(S) == CHOOSE x \in S : \A y \in S : y <= x
SetMin(S) == CHOOSE x \in S : \A y \in S : x <= y

\* match.end() of the greedy match; -1 when there is no match.
MatchEnd(regex, text) ==
  LET ends == MatchEnds(regex, text, {0})
  IN  IF ends = {} THEN -1 ELSE SetMax(ends)

\* Python slices s[a:b] and s[a:] on 0-based positions.
Slice(s, a, b) == SubSeq(s, a + 1, IF b < Len(s) THEN b ELSE Len(s))
SliceFrom(s, a) == SubSeq(s, a + 1, Len(s))

\* ---------------------------------------------------------------- utils.py
BS == "\\"

RegexAlphabet == {"(", BS, "a"}

\* RemoveRegexBindingGroups: the loop, from character i on, with its flag.
RECURSIVE RemoveWalk(_, _, _)
RemoveWalk(regex, i, escaped) ==
  IF i > Len(regex) THEN <<>>
  ELSE (IF regex[i] = "(" /\ ~escaped THEN <<"(", "?", ":">> ELSE <<regex[i]>>)
       \o RemoveWalk(regex, i + 1, IF regex[i] = BS THEN ~escaped ELSE FALSE)

RemoveRegexBindingGroups(regex) == RemoveWalk(regex, 1, FALSE)

\* RemoveRegexBindingGroups applied to a regular expression, then to what it
\* returned.
InitRemove ==
  /\ BufferInit
  /\ NoFragmentation
  /\ NoReact
  /\ input \in StringsUpTo(RegexAlphabet, MaxRegex)
  /\ result = <<>>
  /\ error_messages = <<>>
  /\ shared = <<>>

RemoveCall ==
  /\ result = <<>>
  /\ result' = <<RemoveRegexBindingGroups(input)>>
  /\ UNCHANGED <<bufVars, fragVars, reactVars, input, error_messages, shared>>

RemoveAgain ==
  /\ result # <<>>
  /\ Len(result[1]) <= 3 * MaxRegex
  /\ input' = result[1]
  /\ result' = <<RemoveRegexBindingGroups(result[1])>>
  /\ UNCHANGED <<bufVars, fragVars, reactVars, error_messages, shared>>

RemoveNext == RemoveCall \/ RemoveAgain

SpecRemove == InitRemove /\ [][RemoveNext]_vars

\* ------------------------------------------------------------ directive.py
\* None where a string may stand: a sequence that is not a string.
None == <<"None">>

Template(indent, lineno, sample) ==
  [kind |-> "Template", indent |-> indent, lineno |-> lineno, sample |-> sample]
Marker(indent, lineno, start, finish, name) ==
  [kind |-> "Marker", indent |-> indent, lineno |-> lineno,
   start |-> start, finish |-> finish, name |-> name]
Send(indent, lineno, channel, message) ==
  [kind |-> "Send", indent |-> indent, lineno |-> lineno,
   channel |-> channel, message |-> message]

\* re.sub(r'\s+', ' ', s)
RECURSIVE CollapseSpace(_)
CollapseSpace(s) ==
  IF s = <<>> THEN <<>>
  ELSE IF IsSpace(Head(s))
       THEN IF Len(s) > 1 /\ IsSpace(s[2]) THEN CollapseSpace(Tail(s))
            ELSE <<" ">> \o CollapseSpace(Tail(s))
       ELSE <<Head(s)>> \o CollapseSpace(Tail(s))

\* Template.InferSkip: the regex
InferSkip(sample, start, finish) ==
  LET text == CollapseSpace(Slice(sample, start, finish))
  IN  [i \in 1..Len(text) |-> IF text[i] = " " THEN Ws ELSE Lit(text[i])]

\* Template.InferSkip: the user error it reports
InferSkipErrors(sample, start, finish) ==
  IF MatchEnd(InferSkip(sample, start, finish), SliceFrom(sample, start))
       > finish - start
  THEN <<"invalid boundary">> ELSE <<>>

Count(s, c, a, b) == Cardinality({i \in (a + 1)..b : i <= Len(s) /\ s[i] = c})

\* Marker.InferRegex with no regex given in the directive: self._regex
InferRegex(sample, m) ==
  IF Len(sample) = m.finish THEN <<[kind |-> "any", ch |-> "", group |-> FALSE]>>
  ELSE LET delimiter == sample[m.finish + 1]
       IN  IF Count(sample, delimiter, m.start, m.finish) = 0
           THEN IF IsSpace(delimiter)
                THEN <<[kind |-> "notws", ch |-> "", group |-> FALSE]>>
                ELSE <<[kind |-> "not", ch |-> delimiter, group |-> FALSE]>>
           ELSE <<>>

InferRegexErrors(sample, m) ==
  LET regex == InferRegex(sample, m)
  IN  IF regex = <<>> THEN <<"delimiter appears in the marker">>
      ELSE IF MatchEnd(regex, SliceFrom(sample, m.start)) # m.finish - m.start
           THEN <<"regex does not match marker">>
           ELSE <<>>

\* ------------------------------------------------- directive.py: the parser
TAB == "\t"
QUOTE == "\""

\* The class \w
WordChars ==
  {"a", "b", "c", "d", "e", "f", "g", "h", "i", "j", "k", "l", "m",
   "n", "o", "p", "q", "r", "s", "t", "u", "v", "w", "x", "y", "z",
   "A", "B", "C", "D", "E", "F", "G", "H", "I", "J", "K", "L", "M",
   "N", "O", "P", "Q", "R", "S", "T", "U", "V", "W", "X", "Y", "Z",
   "0", "1", "2", "3", "4", "5", "6", "7", "8", "9", "_"}

Controller == <<"c", "o", "n", "t", "r", "o", "l", "l", "e", "r">>
Terminal == <<"t", "e", "r", "m", "i", "n", "a", "l">>

\* str.lstrip()
RECURSIVE LStrip(_)
LStrip(s) == IF s # <<>> /\ IsSpace(Head(s)) THEN LStrip(Tail(s)) ELSE s

\* Line.StrippedContent
StrippedContent(content) == RStrip(LStrip(content), LF)

\* Line.GetIndent: the leading white space of content.expandtabs(8), counted
\* from character i on; n characters so far, the last of them in column col.
RECURSIVE IndentWalk(_, _, _, _)
IndentWalk(s, i, n, col) ==
  IF i > Len(s) \/ ~IsSpace(s[i]) THEN n
  ELSE IF s[i] = TAB
       THEN IndentWalk(s, i + 1, n + 8 - (col % 8), col + 8 - (col % 8))
       ELSE IF s[i] \in {LF, CR} THEN IndentWalk(s, i + 1, n + 1, 0)
            ELSE IndentWalk(s, i + 1, n + 1, col + 1)

GetIndent(content) == IndentWalk(content, 1, 0, 0)

\* The position after the longest run of characters of chars that starts at i.
RECURSIVE SkipRun(_, _, _)
SkipRun(s, i, chars) ==
  IF i <= Len(s) /\ s[i] \in chars THEN SkipRun(s, i + 1, chars) ELSE i

\* ' *$' at position i
OnlySpacesFrom(s, i) == \A j \in i..Len(s) : s[j] = " "

\* The position of the last c of s, 0 when there is none.
LastIndexOf(s, c) ==
  IF \E j \in 1..Len(s) : s[j] = c
  THEN SetMax({j \in 1..Len(s) : s[j] = c}) ELSE 0

NoLFIn(s, a, b) == \A j \in a..b : s[j] # LF

\* re.compile(r' *(\.+) *(\w+)? *(?:/(.+)/)? *$').match(payload): span(1),
\* group(2) and group(3) or ''
MarkerSyntax(payload) ==
  LET i1 == SkipRun(payload, 1, {" "})
      i2 == SkipRun(payload, i1, {"."})
      i3 == SkipRun(payload, i2, {" "})
      i4 == SkipRun(payload, i3, WordChars)
      i5 == SkipRun(payload, i4, {" "})
      j == LastIndexOf(payload, "/")
      groups(regex) ==
        [matches |-> TRUE, start |-> i1 - 1, finish |-> i2 - 1,
         name |-> IF i4 > i3 THEN SubSeq(payload, i3, i4 - 1) ELSE None,
         regex |-> regex]
      none == [matches |-> FALSE, start |-> 0, finish |-> 0,
               name |-> None, regex |-> <<>>]
  IN  IF i2 = i1 THEN none
      ELSE IF i5 > Len(payload) THEN groups(<<>>)
      ELSE IF /\ payload[i5] = "/" /\ j >= i5 + 2
              /\ OnlySpacesFrom(payload, j + 1) /\ NoLFIn(payload, i5 + 1, j - 1)
           THEN groups(SubSeq(payload, i5 + 1, j - 1))
           ELSE none

\* re.compile(r' *(\w+) +"(.*)" *$').match(payload): group(1) and group(2)
SendSyntax(payload) ==
  LET i1 == SkipRun(payload, 1, {" "})
      i2 == SkipRun(payload, i1, WordChars)
      i3 == SkipRun(payload, i2, {" "})
      j == LastIndexOf(payload, QUOTE)
      none == [matches |-> FALSE, channel |-> <<>>, message |-> <<>>]
  IN  IF i2 = i1 \/ i3 = i2 \/ i3 > Len(payload) THEN none
      ELSE IF /\ payload[i3] = QUOTE /\ j >= i3 + 1
              /\ OnlySpacesFrom(payload, j + 1) /\ NoLFIn(payload, i3 + 1, j - 1)
           THEN [matches |-> TRUE, channel |-> SubSeq(payload, i1, i2 - 1),
                 message |-> SubSeq(payload, i3 + 1, j - 1)]
           ELSE none

\* re.split(r'(\$\w+)', message): the parts, from character i on, cur being
\* the part under way.
RECURSIVE SplitReferences(_, _, _)
SplitReferences(message, i, cur) ==
  IF i > Len(message) THEN <<cur>>
  ELSE IF /\ message[i] = "$" /\ i < Len(message)
          /\ message[i + 1] \in WordChars
       THEN <<cur, SubSeq(message, i, SkipRun(message, i + 1, WordChars) - 1)>>
            \o SplitReferences(message, SkipRun(message, i + 1, WordChars), <<>>)
       ELSE SplitReferences(message, i + 1, Append(cur, message[i]))

\* Send.References: the parts that start with '$', without the '$'
References(message) ==
  LET parts == SplitReferences(message, 1, <<>>)
  IN  {Tail(parts[k]) :
         k \in {j \in 1..Len(parts) : parts[j] # <<>> /\ parts[j][1] = "$"}}

ChannelErrorsNone(channel) == <<>>

\* Send.__init__: the error it reports
ChannelErrors(channel) ==
  IF channel \notin {Controller, Terminal}
  THEN <<"invalid channel name">> ELSE <<>>

NoDirective == [kind |-> "None"]

\* The line number of the Line objects parsed.
ParsedLineno == 7

\* ParseDirective: [value, errors], the value returned and the messages
\* reported to utils.ReportError.
ParseDirective(content) ==
  LET stripped == StrippedContent(content)
      payload == Tail(stripped)
      indent == GetIndent(content)
      failed(mesg) == [value |-> NoDirective, errors |-> <<mesg>>]
  IN  IF stripped = <<>> \/ stripped[1] = "#"
      THEN [value |-> NoDirective, errors |-> <<>>]
      ELSE IF \E i \in 1..Len(stripped) : stripped[i] = TAB
      THEN failed("unexpected TAB in directive")
      ELSE IF stripped[1] = ">"
      THEN [value |-> Template(indent, ParsedLineno, payload), errors |-> <<>>]
      ELSE IF stripped[1] = "?"
      THEN IF stripped = <<"?">> THEN failed("empty marker directive")
           ELSE IF MarkerSyntax(payload).matches
           THEN [value |->
                   Marker(indent, ParsedLineno, MarkerSyntax(payload).start,
                          MarkerSyntax(payload).finish, MarkerSyntax(payload).name)
                   @@ [regex |->
                         RemoveRegexBindingGroups(MarkerSyntax(payload).regex)],
                 errors |-> <<>>]
           ELSE failed("malformed marker directive")
      ELSE IF stripped[1] = "!"
      THEN IF stripped = <<"!">> THEN failed("empty action directive")
           ELSE IF SendSyntax(payload).matches
           THEN [value |-> Send(indent, ParsedLineno, SendSyntax(payload).channel,
                                SendSyntax(payload).message),
                 errors |-> ChannelErrors(SendSyntax(payload).channel)]
           ELSE failed("malformed action directive")
      ELSE failed("unrecognized directive syntax")

\* The lines parsed: up to MaxPieces pieces of the configuration syntax.
Pieces ==
  {<<" ">>, <<TAB>>, <<"#">>, <<">">>, <<"?">>, <<"!">>, <<".">>, <<"a">>,
   <<"/">>, <<QUOTE>>, Controller, <<" ", QUOTE, "a", QUOTE>>, <<"/", "(", "/">>}

RECURSIVE LinesUpTo(_)
LinesUpTo(n) ==
  IF n = 0 THEN {<<>>}
  ELSE LinesUpTo(n - 1) \cup {l \o p : l \in LinesUpTo(n - 1), p \in Pieces}

\* directive_test.py: utils._error_messages = []; ParseDirective(Line('fn', 7,
\* content))
InitParse ==
  /\ BufferInit
  /\ NoFragmentation
  /\ NoReact
  /\ input \in LinesUpTo(MaxPieces)
  /\ result = <<>>
  /\ error_messages = <<>>
  /\ shared = <<>>

ParseCall ==
  /\ result = <<>>
  /\ result' = <<ParseDirective(input).value>>
  /\ error_messages' = error_messages \o ParseDirective(input).errors
  /\ UNCHANGED <<bufVars, fragVars, reactVars, input, shared>>

ParseNext == ParseCall

SpecParse == InitParse /\ [][ParseNext]_vars

\* ------------------------------------------------------------- reactive.py
\* sorted(markers, key=lambda m: m.start): a stable insertion sort.
RECURSIVE InsertByStart(_, _)
InsertByStart(sorted, m) ==
  IF sorted = <<>> THEN <<m>>
  ELSE IF m.start < Head(sorted).start THEN <<m>> \o sorted
       ELSE <<Head(sorted)>> \o InsertByStart(Tail(sorted), m)

RECURSIVE SortByStart(_)
SortByStart(markers) ==
  IF markers = <<>> THEN <<>>
  ELSE InsertByStart(SortByStart(SubSeq(markers, 1, Len(markers) - 1)),
                     markers[Len(markers)])

BeyondTemplateOrAtEnd(sample, m) == m.finish >= Len(sample)

\* if m.finish > len(template.sample)
BeyondTemplate(sample, m) == m.finish > Len(sample)

\* Pattern.__init__: the loop over the sorted markers, from marker k on, with
\* acc = [regex, index, bound_names, errors].
RECURSIVE PatternWalk(_, _, _, _)
PatternWalk(sample, ms, k, acc) ==
  IF k > Len(ms)
  THEN IF acc.index < Len(sample)
       THEN [acc EXCEPT
               !.regex = @ \o InferSkip(sample, acc.index, Len(sample)),
               !.errors = @ \o InferSkipErrors(sample, acc.index, Len(sample))]
       ELSE acc
  ELSE LET m == ms[k] IN
       IF BeyondTemplate(sample, m)
       THEN PatternWalk(sample, ms, k + 1,
              [acc EXCEPT !.errors = @ \o <<"marker extends beyond template">>])
       ELSE LET skipped ==
                  IF acc.index < m.start
                  THEN [acc EXCEPT
                          !.regex = @ \o InferSkip(sample, acc.index, m.start),
                          !.errors = @ \o InferSkipErrors(sample, acc.index, m.start),
                          !.index = m.start]
                  ELSE acc
            IN  IF skipped.index = m.start
                THEN PatternWalk(sample, ms, k + 1,
                       [skipped EXCEPT
                          !.regex = @ \o (IF InferRegex(sample, m) = <<>>
                                          THEN <<EmptyGroup>>
                                          ELSE <<Group(InferRegex(sample, m)[1])>>),
                          !.errors = @ \o InferRegexErrors(sample, m),
                          !.bound_names = Append(@, m.name),
                          !.index = m.finish])
                ELSE PatternWalk(sample, ms, k + 1,
                       [skipped EXCEPT
                          !.errors = @ \o <<"overlap with another marker">>,
                          !.index = m.finish])

\* Pattern.__init__: [pattern, eol, bound_names, errors]; eol is the '$' that
\* AttachEOLMarker appends to pattern.
PatternInit(template, markers) ==
  LET acc == PatternWalk(template.sample, SortByStart(markers), 1,
               [regex |-> <<>>, index |-> 0, bound_names |-> <<>>, errors |-> <<>>])
  IN  [pattern |-> acc.regex, eol |-> FALSE,
       bound_names |-> acc.bound_names, errors |-> acc.errors]

\* Pattern.AttachEOLMarker
AttachEOLMarker(p) == [p EXCEPT !.eol = TRUE]

\* self.pattern == ''
PatternIsEmpty(p) == p.pattern = <<>> /\ ~p.eol

\* Pattern.Match: does self._regex.match(text) succeed
PatternMatch(p, text) ==
  LET ends == MatchEnds(p.pattern, text, {0})
  IN  IF p.eol THEN Len(text) \in ends ELSE ends # {}

\* itertools.takewhile(pred, spec[from:]) for the directive kinds
RECURSIVE TakeWhileKind(_, _, _)
TakeWhileKind(spec, from, kind) ==
  IF from <= Len(spec) /\ spec[from].kind = kind
  THEN <<spec[from]>> \o TakeWhileKind(spec, from + 1, kind)
  ELSE <<>>

\* Reactive.__init__: the nesting stack after the pops and the append
RECURSIVE PopDeeperOnly(_, _)
PopDeeperOnly(stack, indent) ==
  IF stack # <<>> /\ stack[Len(stack)][1] > indent
  THEN PopDeeperOnly(SubSeq(stack, 1, Len(stack) - 1), indent)
  ELSE stack

RECURSIVE PopDeeper(_, _)
PopDeeper(stack, indent) ==
  IF stack # <<>> /\ stack[Len(stack)][1] >= indent
  THEN PopDeeper(SubSeq(stack, 1, Len(stack) - 1), indent)
  ELSE stack

PushGroup(stack, spec) ==
  Append(PopDeeper(stack, spec[1].indent), <<spec[1].indent, spec[1].lineno>>)

\* Reactive.__init__: the templates with their markers, from directive index on
RECURSIVE CollectPatterns(_, _)
CollectPatterns(spec, index) ==
  IF index <= Len(spec) /\ spec[index].kind = "Template"
  THEN LET markers == TakeWhileKind(spec, index + 1, "Marker")
       IN  <<PatternInit(spec[index], markers)>>
           \o CollectPatterns(spec, index + Len(markers) + 1)
  ELSE <<>>

RECURSIVE PatternsEnd(_, _)
PatternsEnd(spec, index) ==
  IF index <= Len(spec) /\ spec[index].kind = "Template"
  THEN PatternsEnd(spec, index + Len(TakeWhileKind(spec, index + 1, "Marker")) + 1)
  ELSE index

RECURSIVE Flatten(_)
Flatten(ss) == IF ss = <<>> THEN <<>> ELSE Head(ss) \o Flatten(Tail(ss))

\* Reactive.__init__: the names the patterns bind, None among them when a
\* marker has no name.
BoundNames(patterns) ==
  UNION {{patterns[i].bound_names[k] : k \in 1..Len(patterns[i].bound_names)} :
           i \in 1..Len(patterns)}

UnboundNameErrorsNone(patterns, actions) == <<>>

\* Reactive.__init__: one 'unbound name' error for each name a Send refers to
\* that no pattern binds.
UnboundNameErrors(patterns, actions) ==
  Flatten([a \in 1..Len(actions) |->
             [k \in 1..Cardinality(References(actions[a].message)
                                     \ BoundNames(patterns)) |-> "unbound name"]])

\* Reactive.__init__: [nesting, patterns, actions, errors]
ReactiveInit(stack, spec) ==
  LET patterns == CollectPatterns(spec, 1)
      index == PatternsEnd(spec, 1)
      actions == TakeWhileKind(spec, index, "Send")
      n == Len(patterns)
  IN  [nesting |-> PushGroup(stack, spec),
       patterns |-> [i \in 1..n |->
                       IF i < n THEN AttachEOLMarker(patterns[i]) ELSE patterns[i]],
       actions |-> actions,
       errors |->
         (IF \E i \in 2..Len(spec) : spec[i].indent # spec[1].indent
          THEN <<"indentation change in a group">> ELSE <<>>)
         \o Flatten([i \in 1..n |-> patterns[i].errors])
         \o (IF n = 0 THEN <<"group has no templates">> ELSE <<>>)
         \o (IF index + Len(actions) <= Len(spec)
             THEN <<"template/marker after action">> ELSE <<>>)
         \o UnboundNameErrors(patterns, actions)]

\* The reactives of a configuration: its groups compiled in order, all with
\* the one nesting stack.
RECURSIVE CompileGroups(_, _)
CompileGroups(stack, groups) ==
  IF groups = <<>> THEN <<>>
  ELSE LET r == ReactiveInit(stack, Head(groups))
       IN  <<r>> \o CompileGroups(r.nesting, Tail(groups))

\* The configuration of the model:
\*    1  >a
\*    2  ! controller "A"
\*
\*    4    >b
\*    5    >
\*    6    ! terminal "B"
\*    7    ! controller "C"
\*
\*    9    >
\*
\*   11  >a
\*   12  >ab
\*   13  ?.  x
\*   14  ! controller "$x"
Config ==
  << <<Template(0, 1, <<"a">>), Send(0, 2, Controller, <<"A">>)>>,
     <<Template(2, 4, <<"b">>), Template(2, 5, <<>>),
       Send(2, 6, Terminal, <<"B">>), Send(2, 7, Controller, <<"C">>)>>,
     <<Template(2, 9, <<>>)>>,
     <<Template(0, 11, <<"a">>), Template(0, 12, <<"a", "b">>),
       Marker(0, 13, 0, 1, <<"x">>), Send(0, 14, Controller, <<"$", "x">>)>> >>

CompiledConfig == CompileGroups(<<>>, Config)

\* ------------------------------------------------- reactive.py: React
\* self._nesting[:-1]
Ancestors(r) == SubSeq(r.nesting, 1, Len(r.nesting) - 1)

ActiveExact(r, nest) == nest = Ancestors(r)

ActiveAlways(r, nest) == TRUE

\* not (nesting[:len(self._nesting)-1] != self._nesting[:-1])
Active(r, nest) == Slice(nest, 0, Len(r.nesting) - 1) = Ancestors(r)

\* start = bound-len(self._patterns)
WindowStart(r, bound) == bound - Len(r.patterns)

EvictedAtBaseline(r, b, bound) == WindowStart(r, bound) <= b

\* start < buf.baseline
Evicted(r, b, bound) == WindowStart(r, bound) < b

\* The indexes in xrange(start, bound) whose line the pattern does not match.
Mismatches(r, b, ls, bound) ==
  {index \in WindowStart(r, bound)..(bound - 1) :
     ~PatternMatch(r.patterns[index - WindowStart(r, bound) + 1],
                   GetLineOf(b, ls, index))}

DefiniteMismatchAtTail(b, ls, index) == index < GetBoundOf(b, ls)

\* definite_mismatch = index < buf.GetBound()-1
DefiniteMismatch(b, ls, index) == index < GetBoundOf(b, ls) - 1

MismatchReturnPastLine(r, b, ls, bound, index) ==
  IF DefiniteMismatch(b, ls, index) THEN index + 1 ELSE WindowStart(r, bound)

\* return start+1 if definite_mismatch else start
MismatchReturnAlwaysNext(r, b, ls, bound, index) == WindowStart(r, bound) + 1

MismatchReturn(r, b, ls, bound, index) ==
  IF DefiniteMismatch(b, ls, index)
  THEN WindowStart(r, bound) + 1 ELSE WindowStart(r, bound)

MatchReturnFlushAll(r, bound) == -bound

MatchReturnKeepLast(r, bound) == 1 - bound

\* return 1-bound if not self._patterns[-1].pattern else -bound
MatchReturn(r, bound) ==
  IF PatternIsEmpty(r.patterns[Len(r.patterns)]) THEN 1 - bound ELSE -bound

FinishNestingExtend(r, nest) == Append(nest, r.nesting[Len(r.nesting)])

FinishNestingKeep(r, nest) == nest

\* nesting[:] = self._nesting
FinishNesting(r, nest) == r.nesting

InactiveReturnBaseline(b, ls) == b

\* return buf.GetBound()
InactiveReturnPastBound(b, ls) == GetBoundOf(b, ls) + 1

InactiveReturn(b, ls) == GetBoundOf(b, ls)

EvictedReturnStart(r, b, bound) == WindowStart(r, bound)

\* return buf.baseline
EvictedReturn(r, b, bound) == b

\* The line numbers buf.GetLine is called with: xrange(start, bound) up to
\* the first line its pattern does not match.
LinesRead(r, b, ls, bound) ==
  IF Mismatches(r, b, ls, bound) = {} THEN WindowStart(r, bound)..(bound - 1)
  ELSE WindowStart(r, bound)..SetMin(Mismatches(r, b, ls, bound))

\* Pattern.Match: the keys it sets in bindings when the pattern matches.
MatchBindings(p) ==
  {p.bound_names[k] : k \in 1..Len(p.bound_names)} \ {None, <<>>}

\* The keys of bindings once every pattern of r has matched.
BindingsOfMatch(r) == UNION {MatchBindings(r.patterns[i]) : i \in 1..Len(r.patterns)}

\* Send.ExpandVariables: bindings[name] fails for a name that is not a key.
KeyFound(message, bindings) == References(message) \subseteq bindings

NextSendSkipOnError(k, ok) == IF ok THEN k + 1 ELSE k + 2

\* for send in self._actions: the OSError of a write is silenced inside
\* Send.Send, so the loop goes on to the next action either way.
NextSend(k, ok) == k + 1

BaselineAfterReactFlushed(b, ret) == IF ret < 0 THEN -ret ELSE b

\* React assigns nothing to buf: buf.baseline when it returns ret.
BaselineAfterReact(b, ret) == b

Returned(r, bound, kind, ret, fired) ==
  [pc |-> "returned", r |-> r, bound |-> bound, kind |-> kind, ret |-> ret,
   k |-> 0, fired |-> fired, nest0 |-> nesting, read |-> {}, bindings |-> {}]

ReactOp == [op |-> "React", arg |-> 0, err |-> "none"]

\* React, from its entry to its first return or to the first Send.
ReactCall(r, bound) ==
  LET R == reactives[r] IN
  /\ call.pc # "sending"
  /\ last' = ReactOp
  /\ UNCHANGED <<baseline, lines, fed, reactives, nesting>>
  /\ IF ~Active(R, nesting)
     THEN call' = Returned(r, bound, "inactive",
                           InactiveReturn(baseline, lines), <<>>)
     ELSE IF Evicted(R, baseline, bound)
     THEN call' = Returned(r, bound, "evicted",
                           EvictedReturn(R, baseline, bound), <<>>)
     ELSE IF Mismatches(R, baseline, lines, bound) # {}
     THEN call' = [Returned(r, bound, "mismatch",
                     MismatchReturn(R, baseline, lines, bound,
                                    SetMin(Mismatches(R, baseline, lines, bound))),
                     <<>>)
                   EXCEPT !.read = LinesRead(R, baseline, lines, bound)]
     ELSE call' = [pc |-> "sending", r |-> r, bound |-> bound, kind |-> "match",
                   ret |-> 0, k |-> 1, fired |-> <<>>, nest0 |-> nesting,
                   read |-> LinesRead(R, baseline, lines, bound),
                   bindings |-> BindingsOfMatch(R)]

\* React: send.Send(channels, bindings) for the next action; os.write succeeds
\* or raises the OSError that Send silences. The KeyError of ExpandVariables
\* is not silenced: it ends React.
ReactSend ==
  /\ call.pc = "sending"
  /\ call.k <= Len(reactives[call.r].actions)
  /\ IF KeyFound(reactives[call.r].actions[call.k].message, call.bindings)
     THEN \E ok \in BOOLEAN :
            call' = [call EXCEPT !.k = NextSend(@, ok),
                                 !.fired = Append(@, [send |-> call.k, ok |-> ok])]
     ELSE call' = [call EXCEPT !.pc = "raised", !.kind = "KeyError", !.k = 0]
  /\ last' = ReactOp
  /\ UNCHANGED <<baseline, lines, fed, reactives, nesting>>

\* React: after the last Send, the nesting update and the return.
ReactFinish ==
  /\ call.pc = "sending"
  /\ call.k > Len(reactives[call.r].actions)
  /\ nesting' = FinishNesting(reactives[call.r], nesting)
  /\ call' = [call EXCEPT !.pc = "returned", !.k = 0,
                          !.ret = MatchReturn(reactives[call.r], call.bound)]
  /\ baseline' = BaselineAfterReact(baseline,
                                    MatchReturn(reactives[call.r], call.bound))
  /\ last' = ReactOp
  /\ UNCHANGED <<lines, fed, reactives>>

\* ------------------------------ React called directly (reactive_test.py)
\* The nesting lists a caller may pass: the empty list, the nesting of each
\* reactive, and the list [(0, 0)] of TestReactive.testReact.
NestingStates ==
  {<<>>, <<<<0, 0>>>>} \cup {CompiledConfig[r].nesting : r \in 1..Len(CompiledConfig)}

InitReact ==
  /\ BufferInit
  /\ NoFragmentation
  /\ NoConf
  /\ reactives = CompiledConfig
  /\ nesting \in NestingStates
  /\ call = IdleCall
  /\ pass = NoPass

TestAppend ==
  /\ call.pc # "sending"
  /\ \E content \in PtyChunks :
       fed + Len(content) <= MaxFeed /\ AppendRawData(content)
  /\ call' = IdleCall
  /\ UNCHANGED <<fragVars, confVars, reactives, nesting, pass>>

TestUpdateBaseline ==
  /\ call.pc # "sending"
  /\ \E n \in baseline..GetBound : UpdateBaseline(n)
  /\ call' = IdleCall
  /\ UNCHANGED <<fragVars, confVars, reactives, nesting, pass>>

TestReact ==
  /\ \E r \in 1..Len(reactives), bound \in 1..GetBound : ReactCall(r, bound)
  /\ UNCHANGED <<fragVars, confVars, pass>>

TestReactSend == ReactSend /\ UNCHANGED <<fragVars, confVars, pass>>

TestReactFinish == ReactFinish /\ UNCHANGED <<fragVars, confVars, pass>>

ReactNext ==
  \/ TestAppend
  \/ TestUpdateBaseline
  \/ TestReact
  \/ TestReactSend
  \/ TestReactFinish

SpecReact == InitReact /\ [][ReactNext]_vars

\* ------------------------------------ a Pattern built from its directives
\* reactive_test.py, TestPattern.DoSetup: a template and up to three markers
\* named in the order given, each a non-empty range of columns that ends at
\* most one column after the longest sample.
Samples == StringsUpTo({"a", "b"}, MaxSample)

MarkerNames == <<<<"x">>, <<"y">>, <<"z">>>>

Ranges == {r \in (0..MaxSample) \X (1..(MaxSample + 1)) : r[1] < r[2]}

MarkersAt(rs) ==
  [i \in 1..Len(rs) |-> Marker(0, 4 + i, rs[i][1], rs[i][2], MarkerNames[i])]

MarkerLists ==
  {<<>>} \cup {MarkersAt(<<r>>) : r \in Ranges}
         \cup {MarkersAt(<<r, q>>) : r \in Ranges, q \in Ranges}
         \cup {MarkersAt(<<r, q, t>>) : r \in Ranges, q \in Ranges, t \in Ranges}

InitPattern ==
  /\ BufferInit
  /\ NoFragmentation
  /\ NoReact
  /\ input \in {[template |-> Template(0, 4, sample), markers |-> ms] :
                  sample \in Samples, ms \in MarkerLists}
  /\ result = <<>>
  /\ error_messages = <<>>
  /\ shared = <<>>

\* reactive.Pattern(template, markers)
PatternCall ==
  /\ result = <<>>
  /\ result' = <<PatternInit(input.template, input.markers)>>
  /\ error_messages' =
       error_messages \o PatternInit(input.template, input.markers).errors
  /\ UNCHANGED <<bufVars, fragVars, reactVars, input, shared>>

PatternNext == PatternCall

SpecPattern == InitPattern /\ [][PatternNext]_vars

\* --------------------------------- the Reactives of a configuration, built
\* The groups of a configuration are compiled in file order, every
\* constructor being given the one nesting list.
Indents == {0, 2, 4}

\* The line of the first directive of the next group: one blank line after the
\* last directive so far.
NextLineno ==
  IF input = <<>> THEN 1
  ELSE input[Len(input)][Len(input[Len(input)])].lineno + 2

\* A group at this indent: a template and a Send, the Send at the same indent
\* or one column further.
GroupAt(indent, lineno, shift) ==
  <<Template(indent, lineno, <<"a">>),
    Send(indent + shift, lineno + 1, Controller, <<"A">>)>>

InitCompile ==
  /\ BufferInit
  /\ NoFragmentation
  /\ NoReact
  /\ NoConf

\* reactive.Reactive(nesting, spec)
Construct ==
  /\ Len(reactives) < MaxGroups
  /\ \E indent \in Indents, shift \in {0, 1} :
       LET spec == GroupAt(indent, NextLineno, shift)
           r == ReactiveInit(shared, spec)
       IN  /\ reactives' = Append(reactives, r)
           /\ shared' = r.nesting
           /\ error_messages' = error_messages \o r.errors
           /\ input' = Append(input, spec)
  /\ UNCHANGED <<bufVars, fragVars, nesting, call, pass, result>>

CompileNext == Construct

SpecCompile == InitCompile /\ [][CompileNext]_vars

\* ------------------------------- React on groups that bind and refer to names
\* One group per configuration: a template with a marker, named or not, and
\* a Send whose message refers to a bound name, to an unbound name, to the
\* empty name, or to none;
\*    >ab              >a
\*    ?.  [name]       ?.  [name]
\*    ! controller m   >b
\*                     ! controller m
BindNames == {None, <<"x">>}
BindMessages == {<<"$", "x">>, <<"$", "y">>, <<"$">>, <<"A">>}

BindGroups ==
  {<<Template(0, 1, <<"a", "b">>), Marker(0, 2, 0, 1, n), Send(0, 3, Controller, m)>> :
     n \in BindNames, m \in BindMessages}
  \cup
  {<<Template(0, 1, <<"a">>), Marker(0, 2, 0, 1, n), Template(0, 3, <<"b">>),
     Send(0, 4, Controller, m)>> : n \in BindNames, m \in BindMessages}

InitBind ==
  /\ BufferInit
  /\ NoFragmentation
  /\ NoConf
  /\ reactives \in {<<ReactiveInit(<<>>, g)>> : g \in BindGroups}
  /\ nesting = <<>>
  /\ call = IdleCall
  /\ pass = NoPass

SpecBind == InitBind /\ [][ReactNext]_vars

\* ------------------------------- React calls that share one nesting list
\* Reactives three levels deep, called in any order and with any bound on one
\* buffer, with the one nesting list, empty at first.
\*    1  >a
\*    2  ! controller "A"
\*    4    >b
\*    5    >
\*    6    ! terminal "B"
\*    8      >a
\*    9      ! controller "C"
\*   11    >
NestConfig ==
  << <<Template(0, 1, <<"a">>), Send(0, 2, Controller, <<"A">>)>>,
     <<Template(2, 4, <<"b">>), Template(2, 5, <<>>),
       Send(2, 6, Terminal, <<"B">>)>>,
     <<Template(4, 8, <<"a">>), Send(4, 9, Controller, <<"C">>)>>,
     <<Template(2, 11, <<>>)>> >>

InitNest ==
  /\ BufferInit
  /\ NoFragmentation
  /\ NoConf
  /\ reactives = CompileGroups(<<>>, NestConfig)
  /\ nesting = <<>>
  /\ call = IdleCall
  /\ pass = NoPass

NestAppend ==
  /\ call.pc # "sending"
  /\ \E content \in PtyChunks :
       fed + Len(content) <= MaxFeed /\ AppendRawData(content)
  /\ call' = IdleCall
  /\ trail' = [NoTrail EXCEPT !.fired = trail.fired]
  /\ UNCHANGED <<orig, source, output, confVars, reactives, nesting, pass>>

\* The caller raises the baseline: to the value the last match made mandatory,
\* or to another one.
NestUpdateBaseline ==
  /\ call.pc # "sending"
  /\ \E n \in baseline..GetBound :
       /\ UpdateBaseline(n)
       /\ trail' = IF trail.r # 0 /\ ~trail.raised /\ n = -trail.ret
                   THEN [trail EXCEPT !.raised = TRUE]
                   ELSE [NoTrail EXCEPT !.fired = trail.fired]
  /\ call' = IdleCall
  /\ UNCHANGED <<orig, source, output, confVars, reactives, nesting, pass>>

NestReact ==
  /\ \E r \in 1..Len(reactives), bound \in 1..GetBound : ReactCall(r, bound)
  /\ trail' = IF call'.kind = "match"
              THEN [trail EXCEPT !.fired = @ \cup {call'.r}] ELSE trail
  /\ UNCHANGED <<orig, source, output, confVars, pass>>

NestReactSend == ReactSend /\ UNCHANGED <<fragVars, confVars, pass>>

NestReactFinish ==
  /\ ReactFinish
  /\ trail' = [trail EXCEPT !.r = call.r, !.bound = call.bound,
                            !.ret = call'.ret, !.raised = FALSE]
  /\ UNCHANGED <<orig, source, output, confVars, pass>>

NestNext ==
  \/ NestAppend
  \/ NestUpdateBaseline
  \/ NestReact
  \/ NestReactSend
  \/ NestReactFinish

SpecNest == InitNest /\ [][NestNext]_vars

\* ------------------------------------------- the driver and its passes
\* The PTY-read handler appends the chunk read to the buffer; the match
\* driver then evaluates the reactives in configuration order against one
\* bound, with the one nesting list, and combines the values they return.
InitDriver ==
  /\ BufferInit
  /\ NoFragmentation
  /\ NoConf
  /\ reactives = CompiledConfig
  /\ nesting = <<>>
  /\ call = IdleCall
  /\ pass = NoPass

PtyRead ==
  /\ ~pass.on
  /\ \E content \in PtyChunks :
       fed + Len(content) <= MaxFeed /\ AppendRawData(content)
  /\ call' = IdleCall
  /\ pass' = NoPass
  /\ UNCHANGED <<fragVars, confVars, reactives, nesting>>

PassStart ==
  /\ ~pass.on
  /\ \E bound \in 1..GetBound :
       pass' = [on |-> TRUE, bound |-> bound, next |-> 1, rets |-> <<>>,
                nest0 |-> nesting]
  /\ call' = IdleCall
  /\ UNCHANGED <<bufVars, fragVars, confVars, reactives, nesting>>

\* The pass with the value the call on record returned, if it has returned.
Collected(p, c) ==
  IF c.pc = "returned"
  THEN [p EXCEPT !.next = @ + 1,
                 !.rets = Append(@, [ret |-> c.ret, kind |-> c.kind])]
  ELSE p

PassReact ==
  /\ pass.on
  /\ pass.next <= Len(reactives)
  /\ ReactCall(pass.next, pass.bound)
  /\ pass' = Collected(pass, call')
  /\ UNCHANGED <<fragVars, confVars>>

PassReactSend == pass.on /\ ReactSend /\ UNCHANGED <<fragVars, confVars, pass>>

PassReactFinish ==
  /\ pass.on
  /\ ReactFinish
  /\ pass' = Collected(pass, call')
  /\ UNCHANGED <<fragVars, confVars>>

\* The minimum of the values returned in the pass.
PassMin(p) == SetMin({p.rets[i].ret : i \in 1..Len(p.rets)})

\* A negative minimum forces the baseline to its absolute value; a
\* non-negative minimum is the highest baseline allowed.
PassEnd ==
  /\ pass.on
  /\ pass.next > Len(reactives)
  /\ call.pc # "sending"
  /\ IF PassMin(pass) < 0
     THEN UpdateBaseline(-PassMin(pass))
     ELSE \E n \in baseline..PassMin(pass) : UpdateBaseline(n)
  /\ pass' = [pass EXCEPT !.on = FALSE]
  /\ call' = IdleCall
  /\ UNCHANGED <<fragVars, confVars, reactives, nesting>>

Next ==
  \/ PtyRead
  \/ PassStart
  \/ PassReact
  \/ PassReactSend
  \/ PassReactFinish
  \/ PassEnd

Spec == InitDriver /\ [][Next]_vars

\* ---------------------------------------------------------------- claims
\* C1 (as stated): in every reachable state GetBound() - baseline >= 1.
C1_Original == GetBound - baseline >= 1

\* C1 (amended): GetBound() - baseline >= 0 in every reachable state, and a
\* step takes it below 1 only when it is UpdateBaseline(GetBound()).
C1_Amended ==
  /\ [](GetBound - baseline >= 0 /\ Len(lines) >= 1)
  /\ [][(GetBound - baseline >= 1 /\ GetBound' - baseline' < 1)
          => (last'.op = "UpdateBaseline" /\ last'.arg = GetBound)]_vars

C1_Witness ==
  /\ last.op = "UpdateBaseline" /\ last.err = "none"
  /\ GetBound = baseline /\ baseline > 2

\* C2: whatever the fragmentation, the lines drained from the buffer once all
\* of rawstring is fed are re.split('\r*\n', rawstring)[:-1].
C2_Fragmentation ==
  (source = <<>> /\ Drained) => output = ExpectedOutput(orig)

C2_Witness ==
  /\ source = <<>> /\ Drained /\ Len(output) >= 2
  /\ \E i \in 1..(Len(orig) - 1) : orig[i] = CR /\ orig[i + 1] = LF
  /\ last.op = "UpdateBaseline"

\* C9: UpdateBaseline(n) with n < baseline or n > GetBound() fails with an
\* assertion error and changes nothing; otherwise it sets baseline to n.
C9_UpdateBaseline ==
  [][last'.op = "UpdateBaseline" =>
       IF last'.arg < baseline \/ last'.arg > GetBound
       THEN /\ last'.err = "AssertionError"
            /\ baseline' = baseline /\ lines' = lines /\ GetBound' = GetBound
       ELSE /\ last'.err = "none"
            /\ baseline' = last'.arg]_vars

C9_Witness ==
  /\ last.op = "UpdateBaseline" /\ last.err = "AssertionError"
  /\ last.arg > GetBound /\ baseline > 1 /\ Len(lines) > 1

\* C10: AppendRawData leaves baseline unchanged; only UpdateBaseline changes it.
C10_BaselineFrame ==
  [][/\ last'.op = "AppendRawData" => baseline' = baseline
     /\ baseline' # baseline => last'.op = "UpdateBaseline"]_vars

C10_Witness ==
  /\ last.op = "AppendRawData" /\ baseline > 1
  /\ Len(lines) > 2 /\ lines[Len(lines)] # <<>>

\* The part of s after its last LF: the text of the line still being received.
AfterLastLF(s) == Split(s, LF)[Len(Split(s, LF))]

\* C11 (as stated): GetLine(k) succeeds iff baseline <= k < GetBound(), and
\* GetLine(GetBound()-1) returns the partial tail in every reachable state.
C11_Original ==
  [][last'.op = "GetLine" =>
       /\ last'.err = "none" <=> (baseline <= last'.arg /\ last'.arg < GetBound)
       /\ last'.arg = GetBound - 1 =>
            (last'.err = "none" /\ last'.val = lines[Len(lines)])]_vars

\* C11 (amended): GetLine(k) succeeds iff baseline <= k < GetBound() and
\* fails with an assertion error otherwise, changing nothing either way; the
\* last entry of the list is the text received after the last LF, and
\* GetLine(GetBound()-1) returns it when GetBound() > baseline; when
\* GetBound() = baseline (after UpdateBaseline(GetBound())) GetLine(GetBound()-1)
\* fails and no call retrieves the tail.
C11_Amended ==
  /\ [][last'.op = "GetLine" =>
          /\ last'.err = "none" <=> (baseline <= last'.arg /\ last'.arg < GetBound)
          /\ last'.err # "none" => last'.err = "AssertionError"
          /\ baseline' = baseline /\ lines' = lines
          /\ (last'.arg = GetBound - 1 /\ GetBound > baseline) =>
               (last'.err = "none" /\ last'.val = lines[Len(lines)])
          /\ GetBound = baseline => last'.err = "AssertionError"]_vars
  /\ [][last'.op = "AppendRawData" =>
          lines'[Len(lines')] = AfterLastLF(lines[Len(lines)] \o last'.arg)]_vars

C11_Witness ==
  /\ last.op = "GetLine" /\ last.err = "none" /\ last.arg = GetBound - 1
  /\ last.val = <<"a", CR>> /\ baseline > 1

\* ------------------------------------------- claims on the lines buffered
\* The lines of the raw string given so far: its pieces between the LFs, each
\* completed one without its trailing CRs, numbered from 1.
StreamLine(k) ==
  LET pieces == Split(orig, LF)
  IN  IF k < Len(pieces) THEN RStrip(pieces[k], CR) ELSE pieces[k]

CountOf(s, c) == Cardinality({i \in 1..Len(s) : s[i] = c})

\* line is piece without CRs at its end.
StrippedOf(line, piece) ==
  /\ Len(line) <= Len(piece)
  /\ \A i \in 1..Len(piece) : IF i <= Len(line) THEN piece[i] = line[i]
                                ELSE piece[i] = CR
  /\ line = <<>> \/ line[Len(line)] # CR

\* C22: AppendRawData(content) raises GetBound() by the number of LFs in
\* content; every line the call completes is the text received for it
\* without its trailing CRs, and the partial tail keeps its CRs.
C22_AppendRawData ==
  [][last'.op = "AppendRawData" =>
       LET content == last'.arg
           pieces == Split(lines[Len(lines)] \o content, LF)
       IN  /\ GetBound' = GetBound + CountOf(content, LF)
           /\ Len(lines') = Len(lines) + CountOf(content, LF)
           /\ \A i \in 1..(Len(pieces) - 1) :
                StrippedOf(lines'[Len(lines) - 1 + i], pieces[i])
           /\ lines'[Len(lines')] = pieces[Len(pieces)]
           /\ \A i \in 1..(Len(lines) - 1) : lines'[i] = lines[i]]_vars

C22_Witness ==
  /\ last.op = "AppendRawData" /\ last.arg = <<CR, LF>>
  /\ Len(lines) >= 3 /\ lines[Len(lines) - 1] = <<CR, "a">>
  /\ lines[Len(lines)] = <<>>

\* C23: in every state reachable by AppendRawData and in-range
\* UpdateBaseline calls the internal list is non-empty, GetBound() >= baseline
\* and the entry at position index+1 holds the line numbered baseline+index.
C23_ListInvariant ==
  /\ Len(lines) >= 1
  /\ GetBound >= baseline
  /\ GetBound - 1 = Len(Split(orig, LF))
  /\ \A index \in 0..(Len(lines) - 2) :
       lines[index + 2] = StreamLine(baseline + index)

C23_Witness ==
  /\ baseline = 3 /\ Len(lines) = 3 /\ last.op = "AppendRawData"
  /\ lines[2] # <<>> /\ lines[2] # StreamLine(1) /\ lines[2] # StreamLine(2)

\* C25: a completed line k (k < GetBound()-1) reads the same in every later
\* state in which k >= baseline, whatever AppendRawData and UpdateBaseline
\* calls come between, and UpdateBaseline never changes GetBound().
C25_LinesStable ==
  /\ [][/\ baseline' >= baseline
         /\ GetBound' >= GetBound
         /\ \A k \in baseline..(GetBound - 2) :
              k >= baseline' =>
                /\ LineInRange(baseline', lines', k)
                /\ GetLineOf(baseline', lines', k) = GetLineOf(baseline, lines, k)]_vars
  /\ [][last'.op = "UpdateBaseline" => GetBound' = GetBound]_vars

C25_Witness ==
  /\ last.op = "UpdateBaseline" /\ last.err = "none" /\ baseline = 2
  /\ GetBound = 4 /\ GetLineOf(baseline, lines, 2) = <<"a">>
  /\ lines[Len(lines)] = <<"a">>

\* C29: UpdateBaseline(GetBound()) is accepted and leaves GetBound() equal to
\* baseline with no line retrievable; what is appended from then on up to
\* and including the next LF is never retrievable, and the first retrievable
\* line, numbered with the old bound, starts with what follows that LF.
C29_FullFlush ==
  /\ [][(last'.op = "UpdateBaseline" /\ last'.arg = GetBound)
          => /\ last'.err = "none"
             /\ GetBound' = baseline' /\ baseline' = GetBound]_vars
  /\ [](GetBound = baseline
          => \A k \in 0..(GetBound + 1) : ~LineInRange(baseline, lines, k))
  /\ [][(GetBound = baseline /\ last'.op = "AppendRawData")
          => LET pieces == Split(last'.arg, LF)
             IN  /\ baseline' = baseline
                 /\ GetBound' = baseline + Len(pieces) - 1
                 /\ \A k \in baseline'..(GetBound' - 1) :
                      StrippedOf(RStrip(GetLineOf(baseline', lines', k), CR),
                                 pieces[k - baseline + 2])
                 /\ (GetBound' > baseline) =>
                      GetLineOf(baseline', lines', GetBound' - 1)
                        = pieces[Len(pieces)]]_vars
  /\ [][\A k \in 1..(baseline - 1) : ~LineInRange(baseline', lines', k)]_vars

C29_Witness ==
  /\ last.op = "AppendRawData" /\ last.arg = <<"a", LF>> /\ baseline = 2
  /\ lines = <<<<"a", "a">>, <<>>>> /\ fed = 3

\* ------------------------------------------------------ claims on utils.py
\* The number of consecutive backslashes that end just before character i.
RECURSIVE BackslashesBefore(_, _)
BackslashesBefore(s, i) ==
  IF i > 1 /\ s[i - 1] = BS THEN 1 + BackslashesBefore(s, i - 1) ELSE 0

\* s with '(?:' for every '(' that an even number of backslashes precedes.
ParensRewritten(s) ==
  Flatten([i \in 1..Len(s) |->
             IF s[i] = "(" /\ BackslashesBefore(s, i) % 2 = 0
             THEN <<"(", "?", ":">> ELSE <<s[i]>>])

\* C14 (as stated): RemoveRegexBindingGroups leaves every '(' preceded by an
\* odd number of backslashes unchanged and rewrites every other '(' to '(?:',
\* and applied to its own output it returns that output unchanged.
C14_Original ==
  [][/\ (result = <<>> /\ result' # <<>>) => result'[1] = ParensRewritten(input)
     /\ result # <<>> => result' = result]_vars

\* C14, the rewriting alone: the value returned is the argument with '(?:'
\* for every '(' that an even number of backslashes precedes.
C14_Rewriting ==
  [][result' # <<>> => result'[1] = ParensRewritten(input')]_vars

C14_Witness ==
  /\ input = <<BS, "(", "(">>
  /\ result = <<<<BS, "(", "(", "?", ":">>>>

\* -------------------------------------------------- claims on directive.py
\* The stripped line ParseDirective looks at.
ParsedSource == StrippedContent(input)
Parsed == result # <<>>
ReturnsNone == result[1].kind = "None"
BlankOrComment == ParsedSource = <<>> \/ ParsedSource[1] = "#"
HasTab == \E i \in 1..Len(ParsedSource) : ParsedSource[i] = TAB
HasChar(c) == \E i \in 1..Len(ParsedSource) : ParsedSource[i] = c

\* A line that is neither blank nor a comment and cannot be a directive: a
\* tab in it, a '?' or '!' with nothing after it, a '?' without a '.', a '!'
\* without a '"', or a first character that is none of '>', '?', '!'.
Malformed ==
  /\ ~BlankOrComment
  /\ \/ HasTab
     \/ ParsedSource \in {<<"?">>, <<"!">>}
     \/ ParsedSource[1] = "?" /\ ~HasChar(".")
     \/ ParsedSource[1] = "!" /\ ~HasChar(QUOTE)
     \/ ParsedSource[1] \notin {">", "?", "!"}

InvalidChannel ==
  result[1].kind = "Send" /\ result[1].channel \notin {Controller, Terminal}

WithinTemplate ==
  {i \in 1..Len(input.markers) :
     input.markers[i].finish <= Len(input.template.sample)}

Intersect(m, n) == m.start < n.finish /\ n.start < m.finish

Occurrences(seq, x) == Cardinality({i \in 1..Len(seq) : seq[i] = x})

GroupsOf(regex) == Cardinality({i \in 1..Len(regex) : regex[i].group})

\* C21: Pattern records 'overlap with another marker' iff two markers that
\* lie within the template have intersecting [start, finish) ranges, and
\* 'marker extends beyond template' once for each marker with
\* finish > len(sample); those markers add no capture group and no entry of
\* bound_names.
C21_PatternErrors ==
  result # <<>> =>
    /\ Occurrences(error_messages, "overlap with another marker") > 0
         <=> \E i \in WithinTemplate, j \in WithinTemplate :
               i # j /\ Intersect(input.markers[i], input.markers[j])
    /\ Occurrences(error_messages, "marker extends beyond template")
         = Len(input.markers) - Cardinality(WithinTemplate)
    /\ \A k \in 1..Len(result[1].bound_names) :
         \E i \in WithinTemplate : input.markers[i].name = result[1].bound_names[k]
    /\ GroupsOf(result[1].pattern) = Len(result[1].bound_names)
    /\ Len(result[1].bound_names)
         = Cardinality(WithinTemplate)
           - Occurrences(error_messages, "overlap with another marker")

C21_Witness ==
  /\ result # <<>> /\ Len(input.markers) = 3
  /\ Cardinality(WithinTemplate) = 2
  /\ result[1].bound_names = <<<<"z">>>>
  /\ Occurrences(error_messages, "overlap with another marker") = 1
  /\ Occurrences(error_messages, "marker extends beyond template") = 1

\* ------------------------------------------------ claims on construction
\* C20: after any sequence of Reactive constructions sharing one nesting
\* list seeded empty, each reactive's nesting vector has strictly increasing
\* indents and ends with (its own indent, line number of its first
\* directive), and the shared list equals the nesting vector of the reactive
\* constructed last.
C20_NestingVectors ==
  /\ \A i \in 1..Len(reactives) :
       LET v == reactives[i].nesting IN
       /\ Len(v) >= 1
       /\ \A k \in 1..(Len(v) - 1) : v[k][1] < v[k + 1][1]
       /\ v[Len(v)] = <<input[i][1].indent, input[i][1].lineno>>
  /\ reactives = <<>> => shared = <<>>
  /\ reactives # <<>> => shared = reactives[Len(reactives)].nesting

C20_Witness ==
  /\ Len(reactives) = 4
  /\ Len(reactives[3].nesting) = 3 /\ Len(reactives[4].nesting) = 2
  /\ reactives[4].nesting[2][1] = 2 /\ reactives[3].nesting[2][1] = 2
  /\ reactives[4].nesting[2] # reactives[3].nesting[2]
  /\ shared = reactives[4].nesting /\ error_messages # <<>>

\* ------------------------------------------------------ claims on React
\* The reactive of the React call on record, its window and its lines.
CallReactive == reactives[call.r]
CallStart == call.bound - Len(CallReactive.patterns)
CallReturned == call.pc = "returned"

IsPrefix(a, b) == Len(a) <= Len(b) /\ \A i \in 1..Len(a) : a[i] = b[i]

\* All ancestors of r are the leading entries of nest.
AncestorsFired(r, nest) == IsPrefix(SubSeq(r.nesting, 1, Len(r.nesting) - 1), nest)

WindowAvailable == CallStart >= baseline

AllPatternsMatch ==
  \A i \in 1..Len(CallReactive.patterns) :
    PatternMatch(CallReactive.patterns[i],
                 GetLineOf(baseline, lines, CallStart + i - 1))

FirstFailedLine ==
  SetMin({CallStart + i - 1 : i \in {j \in 1..Len(CallReactive.patterns) :
            ~PatternMatch(CallReactive.patterns[j],
                          GetLineOf(baseline, lines, CallStart + j - 1))}})

FreshBuffer == baseline = 1 /\ lines = <<<<>>, <<>>>>

\* C3: an active reactive whose patterns all match lines bound-len(patterns)
\* .. bound-1 returns -bound, or 1-bound when its final pattern is empty.
C3_MatchReturn ==
  (CallReturned /\ AncestorsFired(CallReactive, call.nest0)
     /\ WindowAvailable /\ AllPatternsMatch)
  => call.ret =
       IF CallReactive.patterns[Len(CallReactive.patterns)].pattern = <<>>
       THEN 1 - call.bound ELSE -call.bound

C3_Witness ==
  /\ CallReturned /\ call.kind = "match" /\ call.r = 2
  /\ call.ret = 1 - call.bound /\ call.bound = GetBound

\* C4 (as stated): React on a fresh, empty buffer with bound = GetBound()
\* returns a non-negative value whatever the nesting state.
C4_Original ==
  (CallReturned /\ FreshBuffer /\ call.bound = GetBound) => call.ret >= 0

\* C4 (amended): on a fresh, empty buffer React returns a negative value
\* exactly when the reactive is active, has a single pattern and that
\* pattern matches the empty line; it then returns 1-bound or -bound.
C4_Amended ==
  (CallReturned /\ FreshBuffer /\ call.bound = GetBound)
  => /\ call.ret < 0 <=>
          /\ Len(CallReactive.patterns) = 1
          /\ AncestorsFired(CallReactive, call.nest0)
          /\ PatternMatch(CallReactive.patterns[1], <<>>)
     /\ call.ret < 0 => call.ret \in {1 - call.bound, -call.bound}

C4_Witness ==
  /\ CallReturned /\ FreshBuffer /\ call.bound = GetBound
  /\ call.r = 3 /\ call.ret = -1

\* C5: a mismatch of an active reactive with an available window returns
\* start+1 when the failed line is completed, start when it is the partial
\* tail, and never more than start+1.
C5_MismatchReturn ==
  (CallReturned /\ AncestorsFired(CallReactive, call.nest0)
     /\ WindowAvailable /\ ~AllPatternsMatch)
  => /\ call.ret = IF FirstFailedLine < GetBound - 1
                   THEN CallStart + 1 ELSE CallStart
     /\ call.ret <= CallStart + 1

C5_Witness ==
  /\ CallReturned /\ call.kind = "mismatch" /\ call.r = 4
  /\ FirstFailedLine = CallStart + 1 /\ FirstFailedLine < GetBound - 1
  /\ call.ret = CallStart + 1

\* C6 (as stated): React treats a reactive as active iff the nesting state
\* equals the reactive's nesting vector without its final entry.
C6_Original ==
  CallReturned =>
    (call.kind # "inactive" <=>
       call.nest0 = SubSeq(CallReactive.nesting, 1, Len(CallReactive.nesting) - 1))

\* C6 (amended): React treats a reactive as active iff the reactive's
\* ancestors are the leading entries of the nesting state.
C6_Amended ==
  call.pc # "idle" =>
    (call.kind # "inactive" <=> AncestorsFired(CallReactive, call.nest0))

C6_Witness ==
  /\ CallReturned /\ call.kind = "mismatch" /\ call.r = 2
  /\ call.nest0 = CallReactive.nesting

\* C7: a match sets the nesting state to the reactive's nesting vector,
\* after all its Sends were fired in order and at no other moment; a reactive
\* whose ancestors are not leading entries of the nesting state is then
\* inactive when it is evaluated.
FiredInOrder(c) ==
  [i \in 1..Len(c.fired) |-> c.fired[i].send]
    = [i \in 1..Len(reactives[c.r].actions) |-> i]

C7_NestingReplaced ==
  /\ []((CallReturned /\ call.kind = "match")
          => (nesting = CallReactive.nesting /\ FiredInOrder(call)))
  /\ [][nesting' # nesting
          => (call.pc = "sending" /\ call'.pc = "returned" /\ FiredInOrder(call))]_vars
  /\ [][(call.pc = "sending" /\ call'.pc = "sending")
          => call'.fired = Append(call.fired, [send |-> Len(call.fired) + 1,
                                               ok |-> call'.fired[Len(call'.fired)].ok])]_vars
  /\ [][(call.pc # "sending" /\ call'.pc # "idle"
           /\ ~AncestorsFired(reactives[call'.r], nesting))
          => call'.kind = "inactive"]_vars

C7_Witness ==
  /\ CallReturned /\ call.kind = "match" /\ call.r = 2
  /\ Len(call.fired) = 2 /\ Len(call.nest0) = 2 /\ call.nest0 # nesting

\* A step that enters React: the call on record after it is a new call.
ReactEntered == call.pc # "sending" /\ call'.pc # "idle"

\* C12: when the first len(nesting)-1 entries of the nesting state differ
\* from the reactive's ancestors, React returns buf.GetBound(), fires no Send
\* and leaves the nesting state unchanged; a reactive whose nesting vector has
\* length 1 is never inactive.
C12_Inactive ==
  /\ [][(ReactEntered /\ ~AncestorsFired(reactives[call'.r], nesting))
          => /\ call'.pc = "returned" /\ call'.kind = "inactive"
             /\ call'.ret = GetBound /\ call'.ret = GetBound'
             /\ call'.fired = <<>> /\ call'.read = {}
             /\ nesting' = nesting]_vars
  /\ []((call.pc # "idle" /\ Len(CallReactive.nesting) = 1)
          => call.kind # "inactive")

C12_Witness ==
  /\ CallReturned /\ call.kind = "inactive" /\ call.r = 3
  /\ Len(call.nest0) = 1 /\ call.nest0[1] # CallReactive.nesting[1]
  /\ call.ret = GetBound /\ baseline > 1 /\ GetBound > baseline

\* C13: an active reactive called with bound - len(patterns) < buf.baseline
\* returns buf.baseline, reads no line, fires no Send and leaves the nesting
\* state unchanged.
C13_Evicted ==
  [][(ReactEntered /\ AncestorsFired(reactives[call'.r], nesting)
        /\ call'.bound - Len(reactives[call'.r].patterns) < baseline)
       => /\ call'.pc = "returned" /\ call'.kind = "evicted"
          /\ call'.ret = baseline /\ call'.ret = baseline'
          /\ call'.read = {} /\ call'.fired = <<>>
          /\ nesting' = nesting]_vars

C13_Witness ==
  /\ CallReturned /\ call.kind = "evicted" /\ call.r = 4
  /\ call.bound - 2 = baseline - 1 /\ baseline > 1 /\ call.ret = baseline
  /\ nesting # <<>>

\* C16: when a Reactive compiled without an error finds all its patterns
\* matching, every name its Sends refer to is a key of the bindings of that
\* match, so ExpandVariables never fails on a missing name.
C16_NamesBound ==
  (call.kind \in {"match", "KeyError"} /\ CallReactive.errors = <<>>)
  => /\ call.pc # "raised"
     /\ \A a \in 1..Len(CallReactive.actions) :
          References(CallReactive.actions[a].message) \subseteq call.bindings

C16_Witness ==
  /\ CallReturned /\ call.kind = "match" /\ CallReactive.errors = <<>>
  /\ Len(CallReactive.patterns) = 2 /\ Len(call.fired) = 1
  /\ References(CallReactive.actions[1].message) = {<<"x">>}
  /\ call.bindings = {<<"x">>}

\* C17: an OS error of a Send's write is swallowed: the remaining Sends are
\* fired in order, the nesting state is replaced and the value returned is
\* the one of a match whose writes all succeeded.
C17_WriteErrorSwallowed ==
  /\ [][(call.pc = "sending" /\ call'.pc = "sending")
          => /\ call'.k = call.k + 1
             /\ Len(call'.fired) = Len(call.fired) + 1
             /\ call'.fired[Len(call'.fired)].send = call.k]_vars
  /\ []((CallReturned /\ call.kind = "match")
          => /\ Len(call.fired) = Len(CallReactive.actions)
             /\ \A i \in 1..Len(call.fired) : call.fired[i].send = i
             /\ nesting = CallReactive.nesting
             /\ call.ret = IF CallReactive.patterns[Len(CallReactive.patterns)].pattern
                                = <<>>
                           THEN 1 - call.bound ELSE -call.bound)

C17_Witness ==
  /\ CallReturned /\ call.kind = "match" /\ call.r = 2
  /\ Len(call.fired) = 2 /\ ~call.fired[1].ok /\ call.fired[2].ok
  /\ call.nest0 # nesting /\ call.ret = 1 - call.bound

\* C19: React never changes the line buffer, whatever its outcome: baseline,
\* GetBound() and every retrievable line are the same after each of its
\* steps; the buffer changes only by the caller's AppendRawData and
\* UpdateBaseline, outside React.
C19_BufferFrame ==
  /\ [][last'.op = "React"
          => /\ baseline' = baseline /\ GetBound' = GetBound /\ lines' = lines
             /\ \A k \in baseline..(GetBound - 1) :
                  GetLineOf(baseline', lines', k) = GetLineOf(baseline, lines, k)]_vars
  /\ [][(baseline' # baseline \/ lines' # lines)
          => /\ last'.op \in {"AppendRawData", "UpdateBaseline"}
             /\ call.pc # "sending" /\ call'.pc = "idle"]_vars
  /\ [](call.pc # "idle" => call.kind \in {"inactive", "evicted", "mismatch", "match"})

C19_Witness ==
  /\ CallReturned /\ call.kind = "match" /\ last.op = "React"
  /\ call.ret = -call.bound /\ call.bound > baseline + 1 /\ baseline > 1

\* ----------------------------------------- claims on React's return values
Abs(n) == IF n < 0 THEN -n ELSE n

\* C24: for a reactive with at least one pattern and a bound <= GetBound(),
\* every line React reads is one GetLine accepts, and the absolute value of
\* what React returns lies between baseline and GetBound().
C24_ReturnInRange ==
  (call.pc # "idle" /\ Len(reactives[call.r].patterns) >= 1
     /\ call.bound <= GetBound)
  => /\ \A k \in call.read : LineInRange(baseline, lines, k)
     /\ call.pc = "returned"
          => Abs(call.ret) >= baseline /\ Abs(call.ret) <= GetBound

C24_Witness ==
  /\ call.pc = "returned" /\ call.kind = "match" /\ call.bound = GetBound
  /\ call.ret = -GetBound /\ Cardinality(call.read) = 2

\* C28: when an active reactive with n patterns returns a non-negative v for
\* bound b = GetBound() and b - n >= baseline, v is b-n or b-n+1, a baseline
\* UpdateBaseline accepts and that keeps the window of the next bound; when
\* the mismatch was on the partial tail, v = b - n.
C28_OptionalBaseline ==
  (CallReturned /\ AncestorsFired(reactives[call.r], call.nest0)
     /\ call.bound = GetBound /\ call.bound - Len(reactives[call.r].patterns) >= baseline
     /\ call.ret >= 0)
  => LET n == Len(reactives[call.r].patterns)
         b == call.bound
     IN  /\ call.kind = "mismatch"
         /\ call.ret \in {b - n, b - n + 1}
         /\ BaselineInRange(baseline, lines, call.ret)
         /\ \A k \in (b + 1 - n)..b : k >= call.ret
         /\ FirstFailedLine = GetBound - 1 => call.ret = b - n

C28_Witness ==
  /\ CallReturned /\ call.kind = "mismatch" /\ call.bound = GetBound
  /\ Len(reactives[call.r].patterns) = 2 /\ FirstFailedLine = GetBound - 1
  /\ call.ret = GetBound - 2 /\ call.ret > baseline

\* ------------------------------------------ claims on sequences of calls
ParentOf(r) ==
  {p \in 1..Len(reactives) : reactives[p].nesting = Ancestors(reactives[r])}

\* C26: when all calls share a nesting list that is empty at first, a reactive
\* whose nesting vector has two entries or more fires only after the reactive
\* whose nesting vector is its list of ancestors has fired.
C26_ParentFiresFirst ==
  (call.kind = "match" /\ Len(reactives[call.r].nesting) >= 2)
  => /\ ParentOf(call.r) # {}
     /\ ParentOf(call.r) \subseteq trail.fired \ {call.r}

C26_Witness ==
  /\ call.pc = "returned" /\ call.kind = "match" /\ call.r = 3
  /\ Len(reactives[3].nesting) = 3 /\ trail.fired = {1, 2, 3}

OncePerBound(r) ==
  Len(r.patterns) >= 2 \/ ~PatternIsEmpty(r.patterns[Len(r.patterns)])

\* C27: after a reactive with two patterns or more, or with a non-empty final
\* pattern, has matched for a bound and the baseline has been raised to the
\* mandatory value it returned, its React called again with that bound on the
\* buffer otherwise unchanged finds the window evicted, returns buf.baseline
\* and fires no Send.
C27_OncePerBound ==
  [][(ReactEntered /\ trail.raised /\ call'.r = trail.r
        /\ call'.bound = trail.bound /\ OncePerBound(reactives[trail.r]))
      => /\ call'.pc = "returned" /\ call'.kind = "evicted"
         /\ call'.ret = baseline /\ call'.fired = <<>>
         /\ nesting' = nesting]_vars

C27_Witness ==
  /\ call.pc = "returned" /\ call.kind = "evicted" /\ call.r = 2
  /\ trail.raised /\ trail.r = 2 /\ trail.bound = call.bound
  /\ trail.ret = 1 - call.bound /\ baseline = call.bound - 1

\* ------------------------------------------------- claims on the driver
PassEnds == pass.on /\ ~pass'.on

\* The first line the i-th reactive failed to match in the pass.
PassFailedLine(i) ==
  SetMin(Mismatches(reactives[i], baseline, lines, pass.bound))

\* C8 (as stated): the baseline a pass reaches never exceeds a non-negative
\* value returned by a reactive in that pass.
C8_Original ==
  [][PassEnds =>
       \A i \in 1..Len(pass.rets) :
         pass.rets[i].ret >= 0 => baseline' <= pass.rets[i].ret]_vars

\* C8 (amended): a negative minimum m forces the baseline to -m whatever
\* the other reactives returned; when the minimum is non-negative the
\* baseline reached exceeds no returned value, so a reactive that failed on
\* the partial tail keeps its whole window and one that failed on a
\* completed line loses at most the first line of its window.
C8_Amended ==
  [][PassEnds =>
       IF PassMin(pass) < 0
       THEN baseline' = -PassMin(pass)
       ELSE \A i \in 1..Len(pass.rets) :
              /\ baseline' <= pass.rets[i].ret
              /\ pass.rets[i].kind = "mismatch" =>
                   baseline' <= IF PassFailedLine(i) = GetBound - 1
                                THEN pass.bound - Len(reactives[i].patterns)
                                ELSE pass.bound - Len(reactives[i].patterns) + 1]_vars

C8_Witness ==
  /\ ~pass.on /\ Len(pass.rets) = Len(reactives)
  /\ PassMin(pass) >= 0
  /\ last.op = "UpdateBaseline" /\ last.arg = PassMin(pass) /\ baseline > 1
  /\ \E i \in 1..Len(pass.rets) : pass.rets[i].kind = "mismatch"

\* C18: within one pass over the reactives in configuration order, a reactive
\* evaluated after a match is gated against the nesting state that match
\* wrote: it is active iff its ancestors are the leading entries of the
\* nesting vector of the last reactive that matched before it in the pass (of
\* the state the pass started with when none did); so a child placed after
\* its parent is active in the pass in which the parent fired.
GateOf(j) ==
  LET matched == {i \in 1..(j - 1) : pass.rets[i].kind = "match"}
  IN  IF matched = {} THEN pass.nest0 ELSE reactives[SetMax(matched)].nesting

C18_GatedInPass ==
  \A j \in 1..Len(pass.rets) :
    /\ pass.rets[j].kind # "inactive" <=> AncestorsFired(reactives[j], GateOf(j))
    /\ \A i \in 1..(j - 1) :
         (pass.rets[i].kind = "match"
            /\ Ancestors(reactives[j]) = reactives[i].nesting
            /\ \A k \in (i + 1)..(j - 1) : pass.rets[k].kind # "match")
         => pass.rets[j].kind # "inactive"

C18_Witness ==
  /\ pass.on /\ pass.nest0 = <<>> /\ Len(pass.rets) >= 3
  /\ pass.rets[1].kind = "match" /\ pass.rets[2].kind = "match"
  /\ pass.rets[3].kind = "match"

====
